---- MODULE Spec2Model ----
(***************************************************************************)
(* A model of the thread_pool crate.                                       *)
(*                                                                         *)
(*  - the graveyard-based worker of src/worker.rs: one thread per worker,  *)
(*    polling a priority and a normal channel, retiring through the        *)
(*    shared graveyard, a targeted Terminate or the idle self-purge;       *)
(*  - the pool that owns those workers (crate::scheduler, not part of the  *)
(*    sources at hand: its operations follow the specification text);      *)
(*  - the single-queue pool of src/common.rs.                              *)
(***************************************************************************)
EXTENDS Integers, Sequences, FiniteSets, TLC

VARIABLES
    \* ---- graveyard-based pool (worker.rs and its owner) ----
    pri_chan,         \* priority channel: sequence of messages
    norm_chan,        \* normal channel: sequence of messages
    graveyard,        \* Vec<i8>; slot i is graveyard[i + 1]
    forced_close,     \* the forced-close flag
    max_idle,         \* the shared AtomicUsize (milliseconds)
    privileged,       \* WorkerConfig.privileged of the pool's workers
    now,              \* the system clock (milliseconds)
    workers,          \* ids of the Worker entries the pool still owns
    owner,            \* what the thread that owns the pool is doing
    next_job,         \* the next job to be submitted
    job_limit,        \* how many jobs the submitters have
    ctl_pri,          \* whether Terminate messages travel on the priority channel
    pc,               \* per worker: where its thread is
    wait,             \* per worker: fetch_work's round counter
    side_chan_empty,  \* per worker: fetch_work's side_chan_empty argument
    pri_work_count,   \* per worker: the u8 counter of check_queues
    courier,          \* per worker: WorkCourier {target, work}
    since,            \* per worker: idle baseline (None for privileged)
    idle,             \* per worker: the idle period of this iteration
    \* ---- observers (never read by the program) ----
    ran,              \* per job: how many times it was executed
    exit,             \* per worker: through which return it retired
    idle_base,        \* per worker: baseline the last idle was measured from
    deq_dead,         \* per worker: messages dequeued with its slot at -1
    deq_forced,       \* per worker: messages dequeued under forced close
    streak,           \* per worker: consecutive priority jobs, normal waiting
    pri_run,          \* per worker: consecutive messages from the priority channel
    must_yield,       \* per worker: saw the normal channel full at the cap
    \* ---- single-queue pool (common.rs) ----
    tp_workers,       \* ThreadPool.workers: the ids, in Vec order
    last_id,          \* ThreadPool.last_id
    receiver,         \* the mpsc channel: sequence of messages
    lock,             \* the receiver's Mutex: id of the holder, 0 when free
    thread,           \* per id: where the thread of Worker::launch is
    new_job,          \* per id: launch's new_job
    joinable,         \* ids of the list whose Worker.thread is still Some
    caller,           \* what the thread that owns the ThreadPool is doing
    tp_next_job,      \* the next job to be submitted to this pool
    \* ---- observers (never read by the program) ----
    issued,           \* per id: how many Worker::new received it
    called,           \* per job: how many times call_box ran it
    op,               \* the last call on the ThreadPool
    \* ---- one Worker object and its hooks (worker.rs, new and drop) ----
    wk_state,         \* per worker: "none", "alive" (new returned), "dropped"
    wk_thread,        \* per worker: "unspawned", "running", "returned"
    wk_pc,            \* per worker: where the loop of Worker::run is
    g_lock,           \* per worker: its guard on the graveyard's RwLock
    hk_caller,        \* the thread that creates and drops the workers
    hooks_defined,    \* the callbacks of StatusBehaviors that are set
    hook_log,         \* observer, per worker: what happened, on which thread
    \* ---- the process-wide slots of single.rs and multi_pools.rs ----
    POOL,             \* single.rs: static mut POOL
    POOL_ONCE,        \* single.rs: whether ONCE has run
    MULTI_POOL,       \* multi_pools.rs: static mut MULTI_POOL
    MULTI_ONCE,       \* multi_pools.rs: whether ONCE has run
    sup,              \* per supervisory thread: where its loop is
    detached,         \* jobs handed to a detached thread
    reg_caller,       \* the thread that calls the functions of the two modules
    reg_op            \* observer: the last call and how it ended

wvars == <<pri_chan, norm_chan, graveyard, forced_close, max_idle, privileged,
           now, workers, owner, next_job, job_limit, ctl_pri, pc, wait,
           side_chan_empty, pri_work_count, courier, since, idle,
           ran, exit, idle_base, deq_dead, deq_forced, streak, pri_run,
           must_yield>>

commonVars == <<tp_workers, last_id, receiver, lock, thread, new_job,
                joinable, caller, tp_next_job, issued, called, op>>

lifeVars == <<wk_state, wk_thread, wk_pc, g_lock, hk_caller, hooks_defined,
              hook_log>>

regVars == <<POOL, POOL_ONCE, MULTI_POOL, MULTI_ONCE, sup, detached,
             reg_caller, reg_op>>

vars == <<wvars, commonVars, lifeVars, regVars>>

-----------------------------------------------------------------------------
\* Program constants of worker.rs.
LOT_COUNTS == 3
LONG_PARKING_ROUNDS == 16
SHORT_PARKING_ROUNDS == 4
PRI_WORK_CAP == 4
PRI_WORK_SKIP == 255

\* Bounds of the model.
PoolSize == 3          \* the pool was created with this many workers
MaxJobs == 2           \* jobs submitted while two workers are live
ChanCap == 1           \* capacity of each channel
MaxTime == 1           \* the clock stops here

None == 0 - 1

Ids == 1..PoolSize

\* The workers still alive when the model starts; the others were
\* retired by kill_worker before.
Lives == {{1, 2}, {3}}

NewJob(j) == [kind |-> "NewJob", arg |-> j]
Terminate(t) == [kind |-> "Terminate", arg |-> t]

IsFull(chan) == Len(chan) >= ChanCap
IsEmpty(chan) == chan = <<>>

\* Every sender is owned by the pool, which is dropped after its workers.
Disconnected(chan) == owner.pc = "dropped" /\ chan = <<>>

Slot(g, i) == g[i + 1]

Min(a, b) == IF a < b THEN a ELSE b

Max(a, b) == IF a > b THEN a ELSE b

\* Observers saturate here.
ObsCap == PRI_WORK_CAP + 2

-----------------------------------------------------------------------------
\* The pool after ThreadPool::new(PoolSize) and kill_worker of the ids
\* outside `live`: all channels empty, the killed workers' slots at -1.
InitW ==
    /\ pri_chan = <<>>
    /\ norm_chan = <<>>
    /\ forced_close = FALSE
    /\ max_idle \in 0..MaxTime
    /\ privileged \in BOOLEAN
    /\ now = 0
    /\ workers \in Lives
    /\ graveyard = [i \in 1..(PoolSize + 1) |->
                      IF i > 1 /\ (i - 1) \notin workers THEN -1 ELSE 0]
    /\ owner = [pc |-> "ready", to_send |-> 0, target |-> 0, live |-> {},
                 forced |-> FALSE]
    /\ next_job = 1
    /\ ctl_pri \in BOOLEAN
    /\ job_limit = IF Cardinality(workers) = 1 THEN PRI_WORK_CAP + 1 + ChanCap
                   ELSE MaxJobs
    /\ pc = [w \in Ids |-> IF w \in workers THEN "Checking" ELSE "Retired"]
    /\ wait = [w \in Ids |-> 0]
    /\ side_chan_empty = [w \in Ids |-> TRUE]
    /\ pri_work_count = [w \in Ids |-> 0]
    /\ courier = [w \in Ids |-> [target |-> None, work |-> None]]
    /\ since = [w \in Ids |-> IF privileged THEN None ELSE 0]
    /\ idle = [w \in Ids |-> None]
    /\ ran = [j \in 1..job_limit |-> 0]
    /\ exit = [w \in Ids |->
                 IF w \in workers THEN [by |-> "", arg |-> None]
                 ELSE [by |-> "before", arg |-> None]]
    /\ idle_base = [w \in Ids |-> None]
    /\ deq_dead = [w \in Ids |-> 0]
    /\ deq_forced = [w \in Ids |-> 0]
    /\ streak = [w \in Ids |-> 0]
    /\ pri_run = [w \in Ids |-> 0]
    /\ must_yield = [w \in Ids |-> FALSE]

ownerVars == <<workers, owner, next_job, job_limit, ctl_pri, privileged>>
localVars == <<wait, side_chan_empty, pri_work_count, courier, since, idle>>
obsVars == <<ran, exit, idle_base, deq_dead, deq_forced, streak, pri_run,
             must_yield>>

-----------------------------------------------------------------------------
\* Mutant of CheckingExit: the forced-close flag is not looked at.
CheckingExitDrainOnly(w) ==
    IF w >= Len(graveyard) THEN "illegal"
    ELSE IF Slot(graveyard, w) = -1 THEN "dead"
    ELSE IF Slot(graveyard, 0) = -1 /\ IsEmpty(pri_chan) /\ IsEmpty(norm_chan)
         THEN "global"
    ELSE ""

\* Mutant of CheckingExit: the worker's own slot is not looked at.
CheckingExitNoOwnSlot(w) ==
    IF w >= Len(graveyard) THEN "illegal"
    ELSE IF Slot(graveyard, 0) = -1
            /\ (forced_close \/ (IsEmpty(pri_chan) /\ IsEmpty(norm_chan)))
         THEN "global"
    ELSE ""

\* Worker::run, lines 168-186: the check of the graveyard under its read lock.
CheckingExit(w) ==
    IF w >= Len(graveyard) THEN "illegal"
    ELSE IF Slot(graveyard, w) = -1 THEN "dead"
    ELSE IF Slot(graveyard, 0) = -1
            /\ (forced_close \/ (IsEmpty(pri_chan) /\ IsEmpty(norm_chan)))
         THEN "global"
    ELSE ""

\* A return of the thread's closure; `target` is what the observer keeps of it.
Retire(w, by, target) ==
    /\ pc' = [pc EXCEPT ![w] = "Retired"]
    /\ exit' = [exit EXCEPT ![w] = [by |-> by, arg |-> target]]

Checking(w) ==
    /\ pc[w] = "Checking"
    /\ IF CheckingExit(w) # ""
       THEN Retire(w, CheckingExit(w), None)
       ELSE /\ pc' = [pc EXCEPT ![w] = "Polling"]
            /\ UNCHANGED exit
    /\ UNCHANGED <<pri_chan, norm_chan, graveyard, forced_close, max_idle, commonVars, lifeVars, regVars, now,
                   ownerVars, localVars, ran, idle_base, deq_dead, deq_forced,
                   streak, pri_run, must_yield>>

\* Mutant of ProbesPriority: the skip mark counts as below the mark.
ProbesPriorityAlways(count) == count <= PRI_WORK_SKIP

\* Mutant of ProbesPriority: the skip mark is not tested.
ProbesPriorityNoMark(count) == count >= 0

\* Mutant of ProbesPriority: the priority channel is never probed first.
ProbesPriorityNever(count) == count < 0

\* Worker::check_queues, line 247: whether this iteration probes the
\* priority channel.
ProbesPriority(count) == count < PRI_WORK_SKIP

\* Worker::check_queues, lines 247-252 and 278-283: which channel is fetched
\* first, and the side_chan_empty argument of that fetch.
Polling(w) ==
    /\ pc[w] = "Polling"
    /\ IF ProbesPriority(pri_work_count[w])
       THEN /\ side_chan_empty' = [side_chan_empty EXCEPT ![w] = IsEmpty(norm_chan)]
            /\ pc' = [pc EXCEPT ![w] = "FetchPri"]
            /\ UNCHANGED <<pri_work_count, must_yield>>
       ELSE /\ pri_work_count' = [pri_work_count EXCEPT ![w] = 0]
            /\ side_chan_empty' = [side_chan_empty EXCEPT ![w] = IsEmpty(pri_chan)]
            /\ pc' = [pc EXCEPT ![w] = "FetchNorm"]
            /\ must_yield' = [must_yield EXCEPT ![w] = FALSE]
    /\ wait' = [wait EXCEPT ![w] = 0]
    /\ UNCHANGED <<pri_chan, norm_chan, graveyard, forced_close, max_idle, commonVars, lifeVars, regVars, now,
                   ownerVars, courier, since, idle, ran, exit, idle_base,
                   deq_dead, deq_forced, streak, pri_run>>

\* Worker::fetch_work, lines 315-319.
Rounds(can_skip) ==
    IF can_skip THEN SHORT_PARKING_ROUNDS ELSE LONG_PARKING_ROUNDS

\* Worker::fetch_work, lines 321-338: the loop, entered with the counter at
\* `waited`, against a channel that holds `chan` while it spins.  The result
\* is what fetch_work returns and the number of try_recv calls it made.
RECURSIVE FetchLoop(_, _, _, _)
FetchLoop(chan, side_empty, can_skip, waited) ==
    LET w1 == waited + 1
    IN IF ~IsEmpty(chan) THEN [res |-> "Ok", tries |-> w1]
       ELSE IF Disconnected(chan) THEN [res |-> "Disconnected", tries |-> w1]
       ELSE IF can_skip /\ ~side_empty THEN [res |-> "Timeout", tries |-> w1]
       ELSE IF w1 > Rounds(can_skip) THEN [res |-> "Timeout", tries |-> w1]
       ELSE FetchLoop(chan, side_empty, can_skip, w1)

\* Worker::fetch_work, lines 308-339.
FetchWork(chan, side_empty, can_skip) == FetchLoop(chan, side_empty, can_skip, 0)

\* Mutant of UnpackMessage: the job of a NewJob is not kept.
UnpackMessageLost(message, c) ==
    IF message.kind = "NewJob" THEN c ELSE [c EXCEPT !.target = message.arg]

\* Worker::unpack_message, lines 355-367.
UnpackMessage(message, c) ==
    IF message.kind = "NewJob"
    THEN [c EXCEPT !.work = message.arg]
    ELSE [c EXCEPT !.target = message.arg]

\* Worker::check_queues, line 249: the workers that long-park for priority work.
Parking(w) == w % LOT_COUNTS = 0

\* Worker::check_queues, line 287: the can_skip argument of the normal fetch.
NormCanSkip(w) == w % LOT_COUNTS = 1

\* What the observers record when w takes a message off a channel.
Dequeued(w) ==
    /\ deq_dead' = [deq_dead EXCEPT
                      ![w] = IF Slot(graveyard, w) = -1 THEN Min(@ + 1, ObsCap) ELSE @]
    /\ deq_forced' = [deq_forced EXCEPT
                        ![w] = IF forced_close /\ Slot(graveyard, 0) = -1
                               THEN Min(@ + 1, ObsCap) ELSE @]

HasJob(chan) == \E i \in 1..Len(chan) : chan[i].kind = "NewJob"

\* Worker::check_queues, lines 250-277: the fetch on the priority channel
\* and what is done with its result.
FetchPri(w) ==
    /\ pc[w] = "FetchPri"
    /\ LET f == FetchWork(pri_chan, side_chan_empty[w], ~Parking(w))
       IN /\ wait' = [wait EXCEPT ![w] = f.tries]
          /\ CASE f.res = "Ok" ->
                 /\ pri_chan' = Tail(pri_chan)
                 /\ courier' = [courier EXCEPT ![w] = UnpackMessage(Head(pri_chan), @)]
                 /\ IF pri_work_count[w] < PRI_WORK_CAP
                    THEN /\ pri_work_count' = [pri_work_count EXCEPT ![w] = @ + 1]
                         /\ pc' = [pc EXCEPT ![w] = "Handling"]
                    ELSE /\ pc' = [pc EXCEPT ![w] = "CheckFull"]
                         /\ UNCHANGED pri_work_count
                 /\ Dequeued(w)
                 /\ streak' = [streak EXCEPT
                      ![w] = IF Head(pri_chan).kind # "NewJob" THEN @
                             ELSE IF HasJob(norm_chan) THEN Min(@ + 1, ObsCap)
                             ELSE 0]
                 /\ pri_run' = [pri_run EXCEPT ![w] = Min(@ + 1, ObsCap)]
                 /\ UNCHANGED exit
            [] f.res = "Disconnected" ->
                 /\ Retire(w, "disconnected", None)
                 /\ UNCHANGED <<pri_chan, courier, pri_work_count, deq_dead,
                                deq_forced, streak, pri_run>>
            [] f.res = "Timeout" ->
                 /\ pc' = [pc EXCEPT ![w] = "PollNorm"]
                 /\ UNCHANGED <<pri_chan, courier, pri_work_count, deq_dead,
                                deq_forced, streak, pri_run, exit>>
    /\ UNCHANGED <<norm_chan, graveyard, forced_close, max_idle, commonVars, lifeVars, regVars, now, ownerVars,
                   side_chan_empty, since, idle, ran, idle_base, must_yield>>

\* Worker::check_queues, lines 260-265: at the cap, the look at the normal
\* channel after a message was taken off the priority channel.
CheckFull(w) ==
    /\ pc[w] = "CheckFull"
    /\ IF IsFull(norm_chan)
       THEN /\ pri_work_count' = [pri_work_count EXCEPT ![w] = PRI_WORK_SKIP]
            /\ must_yield' = [must_yield EXCEPT ![w] = TRUE]
       ELSE UNCHANGED <<pri_work_count, must_yield>>
    /\ pc' = [pc EXCEPT ![w] = "Handling"]
    /\ UNCHANGED <<pri_chan, norm_chan, graveyard, forced_close, max_idle, commonVars, lifeVars, regVars, now,
                   ownerVars, wait, side_chan_empty, courier, since, idle, ran,
                   exit, idle_base, deq_dead, deq_forced, streak, pri_run>>

\* Worker::check_queues, lines 285-288: the arguments of the normal fetch.
PollNorm(w) ==
    /\ pc[w] = "PollNorm"
    /\ side_chan_empty' = [side_chan_empty EXCEPT ![w] = IsEmpty(pri_chan)]
    /\ wait' = [wait EXCEPT ![w] = 0]
    /\ pc' = [pc EXCEPT ![w] = "FetchNorm"]
    /\ UNCHANGED <<pri_chan, norm_chan, graveyard, forced_close, max_idle, commonVars, lifeVars, regVars, now,
                   ownerVars, pri_work_count, courier, since, idle, ran, exit,
                   idle_base, deq_dead, deq_forced, streak, pri_run, must_yield>>

\* Worker::check_queues, lines 286-305: the fetch on the normal channel and
\* what is done with its result.
FetchNorm(w) ==
    /\ pc[w] = "FetchNorm"
    /\ LET f == FetchWork(norm_chan, side_chan_empty[w], NormCanSkip(w))
       IN /\ wait' = [wait EXCEPT ![w] = f.tries]
          /\ CASE f.res = "Ok" ->
                 /\ norm_chan' = Tail(norm_chan)
                 /\ courier' = [courier EXCEPT ![w] = UnpackMessage(Head(norm_chan), @)]
                 /\ pri_work_count' = [pri_work_count EXCEPT ![w] = 0]
                 /\ pc' = [pc EXCEPT ![w] = "Handling"]
                 /\ Dequeued(w)
                 /\ streak' = IF Head(norm_chan).kind = "NewJob"
                               THEN [v \in Ids |-> 0] ELSE streak
                 /\ pri_run' = [pri_run EXCEPT ![w] = 0]
                 /\ UNCHANGED exit
            [] f.res = "Disconnected" ->
                 /\ Retire(w, "disconnected", None)
                 /\ UNCHANGED <<norm_chan, courier, pri_work_count, deq_dead,
                                deq_forced, streak, pri_run>>
            [] f.res = "Timeout" ->
                 /\ pc' = [pc EXCEPT ![w] = "Handling"]
                 /\ UNCHANGED <<norm_chan, courier, pri_work_count, deq_dead,
                                deq_forced, streak, pri_run, exit>>
    /\ UNCHANGED <<pri_chan, graveyard, forced_close, max_idle, commonVars, lifeVars, regVars, now, ownerVars,
                   side_chan_empty, since, idle, ran, idle_base, must_yield>>

\* Worker::calc_idle, lines 369-377.
CalcIdle(s) == IF s # None THEN now - s ELSE None

\* Worker::handle_work, lines 341-353: the idle period it returns, the
\* job having been called.
HandleWorkIdle(s) == IF s # None THEN CalcIdle(s) ELSE None

\* Worker::run, lines 196-203: the job, if one was taken, is called, and the
\* idle period of this iteration is worked out.
Handling(w) ==
    /\ pc[w] = "Handling"
    /\ IF courier[w].work # None
       THEN /\ ran' = [ran EXCEPT ![courier[w].work] = @ + 1]
            /\ courier' = [courier EXCEPT ![w].work = None]
            /\ idle' = [idle EXCEPT ![w] = HandleWorkIdle(since[w])]
            /\ since' = [since EXCEPT ![w] = IF @ # None THEN now ELSE None]
       ELSE /\ idle' = [idle EXCEPT ![w] = CalcIdle(since[w])]
            /\ UNCHANGED <<ran, courier, since>>
    /\ idle_base' = [idle_base EXCEPT ![w] = since[w]]
    \* check_queues has returned: its frame is gone
    /\ wait' = [wait EXCEPT ![w] = 0]
    /\ side_chan_empty' = [side_chan_empty EXCEPT ![w] = TRUE]
    /\ pc' = [pc EXCEPT ![w] = "Settling"]
    /\ UNCHANGED <<pri_chan, norm_chan, graveyard, forced_close, max_idle, commonVars, lifeVars, regVars, now,
                   ownerVars, pri_work_count, exit, deq_dead, deq_forced,
                   streak, pri_run, must_yield>>

\* Mutant of GraveyardWrite: the sign of the mark is lost.
GraveyardWriteUnsigned(g, id) ==
    IF id < Len(g) THEN [g EXCEPT ![id + 1] = 1] ELSE g

\* Worker::run, lines 213-216: the write into the graveyard.
GraveyardWrite(g, id) ==
    IF id < Len(g) THEN [g EXCEPT ![id + 1] = -1] ELSE g

\* Mutant of QuitsOn: any targeted Terminate makes the worker quit.
QuitsOnAnyTarget(w, id) == (id = 0 /\ forced_close) \/ id # 0

\* Mutant of QuitsOn: Terminate(0) makes the worker quit whatever the flag.
QuitsOnGlobal(w, id) == id = 0 \/ id = w

\* Worker::run, line 218: whether the worker quits on this target.
QuitsOn(w, id) == (id = 0 /\ forced_close) \/ id = w

\* Mutant of SelfPurge: max_idle is not tested against 0.
SelfPurgeNoFloor(i) == i # None /\ max_idle <= i

\* Worker::run, lines 226-231: the self-purge test.
SelfPurge(i) == i # None /\ max_idle > 0 /\ max_idle <= i

\* Worker::run, lines 209-231: the after-work handling.
Settling(w) ==
    /\ pc[w] = "Settling"
    /\ LET id == courier[w].target
       IN /\ graveyard' = IF id # None THEN GraveyardWrite(graveyard, id)
                          ELSE graveyard
          /\ courier' = [courier EXCEPT ![w].target = None]
          /\ IF id # None /\ QuitsOn(w, id)
             THEN /\ Retire(w, "target", id)
                  /\ UNCHANGED <<idle, idle_base>>
             ELSE /\ idle' = [idle EXCEPT ![w] = None]
                  /\ IF SelfPurge(idle[w])
                     THEN /\ Retire(w, "purge", max_idle)
                          /\ UNCHANGED idle_base
                     ELSE /\ pc' = [pc EXCEPT ![w] = "Checking"]
                          /\ idle_base' = [idle_base EXCEPT ![w] = None]
                          /\ UNCHANGED exit
    /\ UNCHANGED <<pri_chan, norm_chan, forced_close, max_idle, commonVars, lifeVars, regVars, now, ownerVars,
                   wait, side_chan_empty, pri_work_count, since, ran,
                   deq_dead, deq_forced, streak, pri_run, must_yield>>

Worker(w) ==
    \/ Checking(w)
    \/ Polling(w)
    \/ FetchPri(w)
    \/ CheckFull(w)
    \/ PollNorm(w)
    \/ FetchNorm(w)
    \/ Handling(w)
    \/ Settling(w)

-----------------------------------------------------------------------------
\* The owner of the pool (crate::scheduler::ThreadPool).

Send(to_pri, message) ==
    IF to_pri
    THEN /\ ~IsFull(pri_chan)
         /\ pri_chan' = Append(pri_chan, message)
         /\ UNCHANGED norm_chan
    ELSE /\ ~IsFull(norm_chan)
         /\ norm_chan' = Append(norm_chan, message)
         /\ UNCHANGED pri_chan

\* execute / execute_with_priority: a NewJob on the chosen channel.
Execute(prioritized) ==
    /\ owner.pc = "ready"
    /\ next_job <= job_limit
    /\ Send(prioritized, NewJob(next_job))
    /\ next_job' = next_job + 1
    /\ UNCHANGED <<graveyard, forced_close, max_idle, commonVars, lifeVars, regVars, privileged, now, workers,
                   owner, job_limit, ctl_pri, pc, localVars, obsVars>>

\* kill_worker(id): the entry leaves the pool's list, Terminate(id) is sent,
\* and the owner joins the worker's thread.
KillWorker(id) ==
    /\ owner.pc = "ready"
    /\ id \in workers
    /\ Send(ctl_pri, Terminate(id))
    /\ workers' = workers \ {id}
    /\ owner' = [owner EXCEPT !.pc = "kill_join", !.target = id]
    /\ UNCHANGED <<graveyard, forced_close, max_idle, commonVars, lifeVars, regVars, privileged, now, next_job,
                   job_limit, ctl_pri, pc, localVars, obsVars>>

JoinKilled ==
    /\ owner.pc = "kill_join"
    /\ pc[owner.target] = "Retired"
    /\ owner' = [owner EXCEPT !.pc = "ready", !.target = 0]
    /\ UNCHANGED <<pri_chan, norm_chan, graveyard, forced_close, max_idle, commonVars, lifeVars, regVars,
                   privileged, now, workers, next_job, job_limit, ctl_pri, pc,
                   localVars, obsVars>>

\* close / force_close: force_close sets the flag first; then one
\* Terminate(0) per worker of the list is sent, then each is joined.
Close(forced) ==
    /\ owner.pc = "ready"
    /\ forced_close' = (forced_close \/ forced)
    /\ owner' = [owner EXCEPT
                   !.forced = forced,
                   !.pc = IF workers = {} THEN "join" ELSE "closing",
                   !.to_send = Cardinality(workers),
                   !.live = {w \in workers : pc[w] # "Retired"}]
    /\ UNCHANGED <<pri_chan, norm_chan, graveyard, max_idle, commonVars, lifeVars, regVars, privileged, now,
                   workers, next_job, job_limit, ctl_pri, pc, localVars, obsVars>>

SendTerminate ==
    /\ owner.pc = "closing"
    /\ Send(ctl_pri, Terminate(0))
    /\ owner' = [owner EXCEPT
                   !.pc = IF owner.to_send = 1 THEN "join" ELSE "closing",
                   !.to_send = @ - 1]
    /\ UNCHANGED <<graveyard, forced_close, max_idle, commonVars, lifeVars, regVars, privileged, now, workers,
                   next_job, job_limit, ctl_pri, pc, localVars, obsVars>>

JoinAll ==
    /\ owner.pc = "join"
    /\ \A w \in workers : pc[w] = "Retired"
    /\ owner' = [owner EXCEPT !.pc = "dropped"]
    /\ workers' = {}
    /\ UNCHANGED <<pri_chan, norm_chan, graveyard, forced_close, max_idle, commonVars, lifeVars, regVars,
                   privileged, now, next_job, job_limit, ctl_pri, pc, localVars, obsVars>>

\* The clock advances.
Tick ==
    /\ now < MaxTime
    /\ now' = now + 1
    /\ UNCHANGED <<pri_chan, norm_chan, graveyard, forced_close, max_idle, commonVars, lifeVars, regVars,
                   privileged, workers, owner, next_job, job_limit, ctl_pri,
                   pc, localVars, obsVars>>

-----------------------------------------------------------------------------
\* Bounds of the Worker objects and of the process-wide slots.
MaxHooked == 2         \* Worker objects created and dropped
MaxSup == 2            \* supervisory threads ever spawned
MaxRuns == 1           \* jobs handed to run / run_with

HookIds == 1..MaxHooked
SupIds == 1..MaxSup

\* The pool names the callers use; "" is the empty key.
Names == {"a", "b"}

\* No Worker object has been created.
NoHooks ==
    /\ wk_state = [i \in HookIds |-> "none"]
    /\ wk_thread = [i \in HookIds |-> "unspawned"]
    /\ wk_pc = [i \in HookIds |-> "none"]
    /\ g_lock = [i \in HookIds |-> "none"]
    /\ hk_caller = [pc |-> "none", id |-> 0, at |-> 0]
    /\ hooks_defined = {}
    /\ hook_log = [i \in HookIds |-> <<>>]

\* Neither single.rs nor multi_pools.rs is in use.
NoRegistry ==
    /\ POOL = <<>>
    /\ POOL_ONCE = FALSE
    /\ MULTI_POOL = <<>>
    /\ MULTI_ONCE = FALSE
    /\ sup = [t \in SupIds |-> [of |-> "none", pc |-> "none"]]
    /\ detached = 0
    /\ reg_caller = [pc |-> "none", waits |-> None]
    /\ reg_op = [name |-> "none", key |-> "", n |-> 0, outcome |-> "none",
                 flip |-> FALSE]

-----------------------------------------------------------------------------
\* The single-queue pool of common.rs.

\* Bounds of the single-queue pool.
MaxNew == 2            \* ThreadPool::new is called with a size of 0..MaxNew
MaxExtend == 2         \* extend is called with a size of 0..MaxExtend
MaxId == 4             \* no id beyond this one is issued
MaxQueue == 4          \* clear is not called with more messages pending

TpIds == 1..MaxId

Range(s) == {s[k] : k \in 1..Len(s)}

\* Vec::swap_remove(index): the last element takes the place of the removed.
SwapRemove(s, index) ==
    [k \in 1..(Len(s) - 1) |-> IF k = index THEN s[Len(s)] ELSE s[k]]

\* The ids start .. start + size - 1, in the order Worker::new is called.
IdRun(start, size) == [k \in 1..size |-> start + k - 1]

\* Mutant of PoolSizeOf: the requested size is taken as it is.
PoolSizeOfUnclamped(size) == size

\* ThreadPool::new, lines 30-33: the size is clamped to at least 1.
PoolSizeOf(size) == IF size < 1 THEN 1 ELSE size

\* single.rs, init_with_config, lines 66-69: the size handed to create.
SinglePoolSize(size) == IF size = 0 THEN 1 ELSE size

\* No ThreadPool of common.rs has been created.
NoPool ==
    /\ tp_workers = <<>>
    /\ last_id = 0
    /\ receiver = <<>>
    /\ lock = 0
    /\ thread = [i \in TpIds |-> "none"]
    /\ new_job = [i \in TpIds |-> None]
    /\ joinable = {}
    /\ caller = [pc |-> "none", target |-> 0, to_send |-> 0, index |-> 0,
                 drop |-> FALSE]
    /\ tp_next_job = 1
    /\ issued = [i \in TpIds |-> 0]
    /\ called = [j \in 1..MaxJobs |-> 0]
    /\ op = [name |-> "none", arg |-> 0, flip |-> FALSE]

\* The graveyard-based pool as constructed, never used.
AtRest ==
    /\ InitW
    /\ max_idle = 0
    /\ privileged
    /\ ctl_pri
    /\ workers = {PoolSize}

OnlyCommon == AtRest /\ NoHooks /\ NoRegistry

\* ThreadPool::new(size): workers 1 .. pool_size are spawned, each thread
\* at the top of launch's loop.
New(size) ==
    /\ tp_workers = IdRun(1, PoolSizeOf(size))
    /\ last_id = 1 + PoolSizeOf(size) - 1
    /\ receiver = <<>>
    /\ lock = 0
    /\ thread = [i \in TpIds |-> IF i <= PoolSizeOf(size) THEN "lock" ELSE "none"]
    /\ new_job = [i \in TpIds |-> None]
    /\ joinable = 1..PoolSizeOf(size)
    /\ caller = [pc |-> "ready", target |-> 0, to_send |-> 0, index |-> 0,
                 drop |-> FALSE]
    /\ tp_next_job = 1
    /\ issued = [i \in TpIds |-> IF i <= PoolSizeOf(size) THEN 1 ELSE 0]
    /\ called = [j \in 1..MaxJobs |-> 0]
    /\ op = [name |-> "new", arg |-> size, flip |-> FALSE]

InitC == OnlyCommon /\ \E size \in 0..MaxNew : New(size)

Called(name, arg) == op' = [name |-> name, arg |-> arg, flip |-> ~op.flip]

\* ---- the thread of Worker::launch ----

\* launch, line 175: receiver.lock().
Lock(i) ==
    /\ thread[i] = "lock"
    /\ lock = 0
    /\ lock' = i
    /\ thread' = [thread EXCEPT ![i] = "recv"]
    /\ UNCHANGED <<wvars, lifeVars, regVars, tp_workers, last_id, receiver, new_job, joinable,
                   caller, tp_next_job, issued, called, op>>

\* launch, lines 180-181: whether Terminate(id) ends the loop of my_id.
Breaks(my_id, id) == id = 0 \/ my_id = id

\* launch, lines 176-185: rx.recv() blocks, with the mutex held, until a
\* message arrives (or fails once the sender is gone); the guard is
\* released at the end of the `if let`.
Recv(i) ==
    /\ thread[i] = "recv"
    /\ lock = i
    /\ IF receiver # <<>>
       THEN /\ receiver' = Tail(receiver)
            /\ IF Head(receiver).kind = "NewJob"
               THEN /\ new_job' = [new_job EXCEPT ![i] = Head(receiver).arg]
                    /\ thread' = [thread EXCEPT ![i] = "call"]
               ELSE /\ thread' = [thread EXCEPT ![i] =
                          IF Breaks(i, Head(receiver).arg) THEN "done" ELSE "lock"]
                    /\ UNCHANGED new_job
       ELSE /\ caller.pc = "dropped"
            /\ thread' = [thread EXCEPT ![i] = "lock"]
            /\ UNCHANGED <<receiver, new_job>>
    /\ lock' = 0
    /\ UNCHANGED <<wvars, lifeVars, regVars, tp_workers, last_id, joinable, caller, tp_next_job,
                   issued, called, op>>

\* launch, lines 187-189: job.call_box().
CallBox(i) ==
    /\ thread[i] = "call"
    /\ called' = [called EXCEPT ![new_job[i]] = @ + 1]
    /\ new_job' = [new_job EXCEPT ![i] = None]
    /\ thread' = [thread EXCEPT ![i] = "lock"]
    /\ UNCHANGED <<wvars, lifeVars, regVars, tp_workers, last_id, receiver, lock, joinable, caller,
                   tp_next_job, issued, op>>

Launch(i) ==
    \/ Lock(i)
    \/ Recv(i)
    \/ CallBox(i)

\* ---- the calls on the ThreadPool ----

\* ThreadPool::execute: the channel is unbounded, the send never blocks.
TpExecute ==
    /\ caller.pc = "ready"
    /\ tp_next_job <= MaxJobs
    /\ receiver' = Append(receiver, NewJob(tp_next_job))
    /\ tp_next_job' = tp_next_job + 1
    /\ Called("execute", tp_next_job)
    /\ UNCHANGED <<wvars, lifeVars, regVars, tp_workers, last_id, lock, thread, new_job, joinable,
                   caller, issued, called>>

\* Mutant of ExtendStart: the ids continue from the length of the list.
ExtendStartByLen == Len(tp_workers) + 1

\* extend, line 63.
ExtendStart == last_id + 1

\* Mutant of ExtendLast: the counter stops one short.
ExtendLastShort(size) == last_id + size - 1

\* extend, line 70.
ExtendLast(size) == last_id + size

\* ThreadPool::extend(size).
Extend(size) ==
    /\ caller.pc = "ready"
    /\ last_id + size <= MaxId
    /\ Called("extend", size)
    /\ IF size = 0
       THEN UNCHANGED <<tp_workers, last_id, thread, joinable, issued>>
       ELSE /\ tp_workers' = tp_workers \o IdRun(ExtendStart, size)
            /\ thread' = [i \in TpIds |->
                            IF i \in Range(IdRun(ExtendStart, size))
                            THEN "lock" ELSE thread[i]]
            /\ joinable' = joinable \cup Range(IdRun(ExtendStart, size))
            /\ issued' = [i \in TpIds |->
                            IF i \in Range(IdRun(ExtendStart, size))
                            THEN issued[i] + 1 ELSE issued[i]]
            /\ last_id' = ExtendLast(size)
    /\ UNCHANGED <<wvars, lifeVars, regVars, receiver, lock, new_job, caller, tp_next_job, called>>

\* kill_worker, lines 76-77: the index of the first entry with this id,
\* 0 when there is none.
IndexOf(id) ==
    IF \E k \in 1..Len(tp_workers) : tp_workers[k] = id
    THEN CHOOSE k \in 1..Len(tp_workers) :
            /\ tp_workers[k] = id
            /\ \A m \in 1..(k - 1) : tp_workers[m] # id
    ELSE 0

\* ThreadPool::kill_worker(id): swap_remove, send Terminate(id), then join
\* if the handle is still there.
TpKillWorker(id) ==
    /\ caller.pc = "ready"
    /\ Called("kill_worker", id)
    /\ IF IndexOf(id) = 0
       THEN UNCHANGED <<tp_workers, receiver, joinable, caller>>
       ELSE /\ tp_workers' = SwapRemove(tp_workers, IndexOf(id))
            /\ receiver' = Append(receiver, Terminate(id))
            /\ joinable' = joinable \ {id}
            /\ caller' = IF id \in joinable
                         THEN [caller EXCEPT !.pc = "kill_join", !.target = id]
                         ELSE caller
    /\ UNCHANGED <<wvars, lifeVars, regVars, last_id, lock, thread, new_job, tp_next_job, issued,
                   called>>

\* kill_worker, line 85: thread.join() returns once the thread has ended.
TpJoinKilled ==
    /\ caller.pc = "kill_join"
    /\ thread[caller.target] = "done"
    /\ caller' = [caller EXCEPT !.pc = "ready", !.target = 0]
    /\ UNCHANGED <<wvars, lifeVars, regVars, tp_workers, last_id, receiver, lock, thread, new_job,
                   joinable, tp_next_job, issued, called, op>>

\* PoolState::get_first_worker_id, lines 117-123.
GetFirstWorkerId ==
    IF Len(tp_workers) > 0 THEN tp_workers[1] ELSE None

\* PoolState::get_last_worker_id, lines 125-131.
GetLastWorkerId ==
    IF Len(tp_workers) > 0 THEN tp_workers[Len(tp_workers)] ELSE None

\* PoolState::get_next_worker_id, lines 133-143: None when current_id is
\* not below the length of the list; otherwise the id stored after the
\* first entry with that id, if there is one.
GetNextWorkerId(current_id) ==
    IF current_id >= Len(tp_workers) THEN None
    ELSE IF IndexOf(current_id) # 0 /\ IndexOf(current_id) < Len(tp_workers)
    THEN tp_workers[IndexOf(current_id) + 1]
    ELSE None

\* Where clear goes after its last send / its last join.
Returned(drop) == IF drop THEN "dropped" ELSE "ready"

\* ThreadPool::clear, called directly or by Drop.
Clear(drop) ==
    /\ caller.pc = "ready"
    /\ Len(receiver) + Len(tp_workers) <= MaxQueue
    /\ Called(IF drop THEN "drop" ELSE "clear", 0)
    /\ caller' = [caller EXCEPT
                    !.pc = IF tp_workers = <<>> THEN Returned(drop) ELSE "clear_send",
                    !.to_send = Len(tp_workers),
                    !.index = 1,
                    !.drop = drop]
    /\ UNCHANGED <<wvars, lifeVars, regVars, tp_workers, last_id, receiver, lock, thread, new_job,
                   joinable, tp_next_job, issued, called>>

\* clear, lines 96-100: one Terminate(0) per entry of the list.
ClearSend ==
    /\ caller.pc = "clear_send"
    /\ receiver' = Append(receiver, Terminate(0))
    /\ caller' = [caller EXCEPT
                    !.to_send = @ - 1,
                    !.pc = IF caller.to_send > 1 THEN "clear_send"
                           ELSE "clear_join"]
    /\ UNCHANGED <<wvars, lifeVars, regVars, tp_workers, last_id, lock, thread, new_job, joinable,
                   tp_next_job, issued, called, op>>

\* clear, lines 102-106: each entry whose handle is still there is joined,
\* in list order.
ClearJoin ==
    /\ caller.pc = "clear_join"
    /\ IF caller.index > Len(tp_workers)
       THEN /\ caller' = [caller EXCEPT !.pc = Returned(caller.drop), !.index = 0,
                                        !.drop = FALSE]
            /\ UNCHANGED joinable
       ELSE /\ tp_workers[caller.index] \in joinable =>
                  thread[tp_workers[caller.index]] = "done"
            /\ joinable' = joinable \ {tp_workers[caller.index]}
            /\ caller' = [caller EXCEPT !.index = @ + 1]
    /\ UNCHANGED <<wvars, lifeVars, regVars, tp_workers, last_id, receiver, lock, thread, new_job,
                   tp_next_job, issued, called, op>>

NextC ==
    \/ \E i \in TpIds : Launch(i)
    \/ TpExecute
    \/ \E size \in 0..MaxExtend : Extend(size)
    \/ \E id \in TpIds : TpKillWorker(id)
    \/ TpJoinKilled
    \/ \E drop \in BOOLEAN : Clear(drop)
    \/ ClearSend
    \/ ClearJoin

SpecC == InitC /\ [][NextC]_vars

\* Fair scheduling: a thread that can take a step again and again takes
\* one, and a call in progress continues when it can.
FairSpecC ==
    /\ InitC
    /\ [][NextC]_vars
    /\ \A i \in TpIds : SF_vars(Launch(i))
    /\ WF_vars(TpJoinKilled)
    /\ WF_vars(ClearSend)
    /\ WF_vars(ClearJoin)

-----------------------------------------------------------------------------
NextW ==
    \/ \E w \in Ids : Worker(w)
    \/ \E p \in BOOLEAN : Execute(p)
    \/ \E id \in Ids : KillWorker(id)
    \/ JoinKilled
    \/ \E f \in BOOLEAN : Close(f)
    \/ SendTerminate
    \/ JoinAll
    \/ Tick

\* The graveyard-based pool alone: no ThreadPool of common.rs exists.
Init == InitW /\ NoPool /\ NoHooks /\ NoRegistry

Spec == Init /\ [][NextW]_vars

\* The threads are scheduled by the operating system: none that can take
\* a step is left waiting forever.
FairInit == Init /\ max_idle = 0 /\ privileged

FairSpec == FairInit /\ [][NextW]_vars /\ \A w \in Ids : WF_vars(Worker(w))

\* force_close of another pool of the process.  ThreadPool::is_forced_close()
\* (worker.rs, lines 180 and 218) is called without a pool: the flag it
\* reads is one per process, so the other pool's force_close sets it.
ForceCloseOther ==
    /\ ~forced_close
    /\ forced_close' = TRUE
    /\ UNCHANGED <<pri_chan, norm_chan, graveyard, max_idle, commonVars, lifeVars, regVars, now,
                   ownerVars, pc, localVars, obsVars>>

NextTwoPools ==
    \/ NextW
    \/ ForceCloseOther

\* This pool next to another one, with privileged workers.
SpecTwoPools == FairInit /\ [][NextTwoPools]_vars

-----------------------------------------------------------------------------
\* One Worker object from Worker::new to its drop (worker.rs).  What its
\* thread does between spawn and return is Worker(w) above; here the thread
\* only runs and, at some point, returns.

Hooks == {"before_start", "after_start", "before_drop", "after_drop"}

\* Worker::new, lines 99-104: what the caller does, in this order.
NewSteps == <<"before_start", "spawn", "after_start">>

\* Mutant of DropSteps: the thread is joined after both callbacks.
DropStepsJoinLast == <<"before_drop", "after_drop", "retire">>

\* Drop for Worker, lines 382-394: what the dropping thread does, in this
\* order; retire (lines 120-127) joins the worker's thread.
DropSteps == <<"before_drop", "retire", "after_drop">>

InitHooks ==
    /\ AtRest
    /\ NoPool
    /\ NoRegistry
    /\ wk_state = [i \in HookIds |-> "none"]
    /\ wk_thread = [i \in HookIds |-> "unspawned"]
    /\ wk_pc = [i \in HookIds |-> "none"]
    /\ g_lock = [i \in HookIds |-> "none"]
    /\ hk_caller = [pc |-> "ready", id |-> 0, at |-> 0]
    /\ hooks_defined \in SUBSET Hooks
    /\ hook_log = [i \in HookIds |-> <<>>]

Logged(i, what, by) ==
    hook_log' = [hook_log EXCEPT ![i] = Append(@, [what |-> what, by |-> by])]

\* A callback runs if it is set (an Option in Worker and in StatusBehaviors).
RunHook(i, hook) ==
    IF hook \in hooks_defined
    THEN Logged(i, hook, "caller")
    ELSE UNCHANGED hook_log

\* The pool calls Worker::new(i, ...).
CallNew(i) ==
    /\ hk_caller.pc = "ready"
    /\ wk_state[i] = "none"
    /\ hk_caller' = [pc |-> "new", id |-> i, at |-> 1]
    /\ UNCHANGED <<wvars, commonVars, regVars, wk_state, wk_thread, wk_pc,
                   g_lock, hooks_defined, hook_log>>

\* Worker::new, lines 99-111, one statement at a time.
StepNew ==
    /\ hk_caller.pc = "new"
    /\ LET i == hk_caller.id
           step == NewSteps[hk_caller.at]
       IN /\ IF step = "spawn"
             THEN /\ wk_thread' = [wk_thread EXCEPT ![i] = "running"]
                  /\ wk_pc' = [wk_pc EXCEPT ![i] = "check"]
                  /\ Logged(i, "spawn", "caller")
             ELSE /\ RunHook(i, step)
                  /\ UNCHANGED <<wk_thread, wk_pc>>
          /\ IF hk_caller.at = Len(NewSteps)
             THEN /\ wk_state' = [wk_state EXCEPT ![i] = "alive"]
                  /\ hk_caller' = [pc |-> "ready", id |-> 0, at |-> 0]
             ELSE /\ hk_caller' = [hk_caller EXCEPT !.at = @ + 1]
                  /\ UNCHANGED wk_state
    /\ UNCHANGED <<wvars, commonVars, regVars, g_lock, hooks_defined>>

\* The Worker goes out of scope on the thread that owns it.
CallDrop(i) ==
    /\ hk_caller.pc = "ready"
    /\ wk_state[i] = "alive"
    /\ hk_caller' = [pc |-> "drop", id |-> i, at |-> 1]
    /\ UNCHANGED <<wvars, commonVars, regVars, wk_state, wk_thread, wk_pc,
                   g_lock, hooks_defined, hook_log>>

\* Drop for Worker, lines 382-394, one statement at a time; the join of
\* retire blocks until the thread has returned.
StepDrop ==
    /\ hk_caller.pc = "drop"
    /\ LET i == hk_caller.id
           step == DropSteps[hk_caller.at]
       IN /\ IF step = "retire"
             THEN /\ wk_thread[i] = "returned"
                  /\ Logged(i, "join", "caller")
             ELSE RunHook(i, step)
          /\ IF hk_caller.at = Len(DropSteps)
             THEN /\ wk_state' = [wk_state EXCEPT ![i] = "dropped"]
                  /\ hk_caller' = [pc |-> "ready", id |-> 0, at |-> 0]
             ELSE /\ hk_caller' = [hk_caller EXCEPT !.at = @ + 1]
                  /\ UNCHANGED wk_state
    /\ UNCHANGED <<wvars, commonVars, regVars, wk_thread, wk_pc, g_lock,
                   hooks_defined>>

\* ---- the loop of Worker::run and the graveyard's RwLock ----
\* What the channels hold is left open here: every outcome of check_queues
\* and of the tests on the graveyard can happen.

Readers == {i \in HookIds : g_lock[i] = "read"}
Writers == {i \in HookIds : g_lock[i] = "write"}

\* A step of worker i's thread inside the loop.
Step(i, from, to) ==
    /\ wk_thread[i] = "running"
    /\ wk_pc[i] = from
    /\ wk_pc' = [wk_pc EXCEPT ![i] = to]

\* Worker::run, line 169: graveyard.read() waits for the writer to be gone.
ReadLock(i) ==
    /\ Step(i, "check", "checked")
    /\ Writers = {}
    /\ g_lock' = [g_lock EXCEPT ![i] = "read"]
    /\ UNCHANGED <<wvars, commonVars, regVars, wk_state, wk_thread, hk_caller,
                   hooks_defined, hook_log>>

\* Mutant of AfterChecking: the read guard outlives the block.
AfterCheckingKept(guard) == guard

\* Worker::run, line 186: the block of the read guard ends, the guard is
\* dropped.
AfterChecking(guard) == "none"

\* Worker::run, lines 170-186: none of the tests of Checking made the
\* worker return.
ReadUnlock(i) ==
    /\ Step(i, "checked", "poll")
    /\ g_lock' = [g_lock EXCEPT ![i] = AfterChecking(@)]
    /\ UNCHANGED <<wvars, commonVars, regVars, wk_state, wk_thread, hk_caller,
                   hooks_defined, hook_log>>

\* Worker::run, lines 189-203: check_queues comes back with a job, with a
\* Terminate or with nothing.
CheckQueues(i, got) ==
    /\ Step(i, "poll", CASE got = "work" -> "job"
                         [] got = "target" -> "settle"
                         [] OTHER -> "purge")
    /\ UNCHANGED <<wvars, commonVars, regVars, wk_state, wk_thread, g_lock,
                   hk_caller, hooks_defined, hook_log>>

\* Worker::handle_work, line 344: work.call_box() returns.  Nothing makes
\* it return.
CallJob(i) ==
    /\ Step(i, "job", "purge")
    /\ UNCHANGED <<wvars, commonVars, regVars, wk_state, wk_thread, g_lock,
                   hk_caller, hooks_defined, hook_log>>

\* Worker::run, line 210: graveyard.write() waits for every guard to be
\* gone.
WriteLock(i) ==
    /\ Step(i, "settle", "settling")
    /\ Readers = {}
    /\ Writers = {}
    /\ g_lock' = [g_lock EXCEPT ![i] = "write"]
    /\ UNCHANGED <<wvars, commonVars, regVars, wk_state, wk_thread, hk_caller,
                   hooks_defined, hook_log>>

\* Worker::run, lines 213-222: the slot is written, the worker does not
\* quit, the write guard is dropped at the end of its block.
WriteUnlock(i) ==
    /\ Step(i, "settling", "purge")
    /\ g_lock' = [g_lock EXCEPT ![i] = "none"]
    /\ UNCHANGED <<wvars, commonVars, regVars, wk_state, wk_thread, hk_caller,
                   hooks_defined, hook_log>>

\* Worker::run, lines 226-232: no self-purge, the loop starts over.
LoopAgain(i) ==
    /\ Step(i, "purge", "check")
    /\ UNCHANGED <<wvars, commonVars, regVars, wk_state, wk_thread, g_lock,
                   hk_caller, hooks_defined, hook_log>>

\* Where the closure of Worker::run can return: lines 172, 176 and 184 under
\* the read guard, 193, 220 under the write guard, and 229.
ReturnPoints == {"checked", "poll", "settling", "purge"}

\* The closure of Worker::run returns (lines 172, 176, 184, 193, 220, 229);
\* its guard, if it holds one, is dropped.
ThreadReturns(i) ==
    /\ wk_thread[i] = "running"
    /\ wk_pc[i] \in ReturnPoints
    /\ wk_thread' = [wk_thread EXCEPT ![i] = "returned"]
    /\ wk_pc' = [wk_pc EXCEPT ![i] = "none"]
    /\ g_lock' = [g_lock EXCEPT ![i] = "none"]
    /\ UNCHANGED <<wvars, commonVars, regVars, wk_state, hk_caller,
                   hooks_defined, hook_log>>

NextHooks ==
    \/ \E i \in HookIds : CallNew(i)
    \/ StepNew
    \/ \E i \in HookIds : CallDrop(i)
    \/ StepDrop
    \/ \E i \in HookIds : ReadLock(i)
    \/ \E i \in HookIds : ReadUnlock(i)
    \/ \E i \in HookIds, got \in {"work", "target", "nothing"} : CheckQueues(i, got)
    \/ \E i \in HookIds : CallJob(i)
    \/ \E i \in HookIds : WriteLock(i)
    \/ \E i \in HookIds : WriteUnlock(i)
    \/ \E i \in HookIds : LoopAgain(i)
    \/ \E i \in HookIds : ThreadReturns(i)

SpecHooks == InitHooks /\ [][NextHooks]_vars


-----------------------------------------------------------------------------
\* The process-wide slots: the single pool of single.rs and the registry of
\* multi_pools.rs.  The pools they hold are crate::scheduler::ThreadPool:
\* of a pool only its size and the number of jobs handed to it are kept.

\* An Option: <<>> is None, <<v>> is Some(v).
IsSome(o) == o # <<>>

\* The periods the callers ask for (seconds); None is no period.
Periods == {None, 1}

\* The sizes the callers ask for.
RegSizes == {0, 2}

\* The maps handed to the registry's initialize: sets of (key, size).
KeyMaps ==
    { {},
      {[key |-> "a", size |-> 1]},
      {[key |-> "a", size |-> 2], [key |-> "b", size |-> 1]},
      {[key |-> "", size |-> 1], [key |-> "b", size |-> 0]} }

\* The last call made on the slots: its name, its key, the number of entries
\* of the map it was given, and how it ended.
Called2(name, key, n, outcome) ==
    reg_op' = [name |-> name, key |-> key, n |-> n, outcome |-> outcome,
               flip |-> ~reg_op.flip]

InitReg ==
    /\ AtRest
    /\ NoPool
    /\ NoHooks
    /\ POOL = <<>>
    /\ POOL_ONCE = FALSE
    /\ MULTI_POOL = <<>>
    /\ MULTI_ONCE = FALSE
    /\ sup = [t \in SupIds |-> [of |-> "none", pc |-> "none"]]
    /\ detached = 0
    /\ reg_caller = [pc |-> "ready", waits |-> None]
    /\ reg_op = [name |-> "none", key |-> "", n |-> 0, outcome |-> "none",
                 flip |-> FALSE]

\* ---- the supervisory thread ----

Unspawned == {t \in SupIds : sup[t].of = "none"}

\* The thread handle thread::spawn returns.
Fresh ==
    IF Unspawned = {} THEN None
    ELSE CHOOSE t \in Unspawned : \A u \in Unspawned : t <= u

\* single.rs lines 172-179, multi_pools.rs lines 207-214: the new thread
\* starts in its first sleep.
Spawned(of) == [sup EXCEPT ![Fresh] = [of |-> of, pc |-> "sleep"]]

\* single.rs lines 173-178, multi_pools.rs lines 208-213: sleep, then
\* forever trigger_auto_adjustment and sleep.  The loop has no exit.
SupStep(t) ==
    /\ sup[t].of # "none"
    /\ sup' = [sup EXCEPT ![t].pc = IF @ = "sleep" THEN "trigger" ELSE "sleep"]
    /\ UNCHANGED <<wvars, commonVars, lifeVars, POOL, POOL_ONCE, MULTI_POOL,
                   MULTI_ONCE, detached, reg_caller, reg_op>>

\* handler.join() (single.rs line 184, multi_pools.rs line 221): the
\* caller waits for thread t to end.
Joining(t) == [pc |-> "stop_join", waits |-> t]

\* ---- single.rs ----

\* Mutant of Rejects: the assertion is gone.
RejectsNever(slot) == FALSE

\* single.rs line 64, multi_pools.rs line 56: the assertion fails.
Rejects(slot) == IsSome(slot)

\* single.rs, create, lines 194-219, for a size above 0.
SingleCreated(size, period) ==
    <<[size |-> size, closing |-> FALSE, auto_mode |-> period # None,
       handler |-> IF period # None THEN Fresh ELSE None, queued |-> 0]>>

\* initialize / initialize_with_auto_adjustment / init_with_config.
SingleInitialize(size, period) ==
    /\ reg_caller.pc = "ready"
    /\ period # None => Unspawned # {}
    /\ IF Rejects(POOL)
       THEN /\ Called2("initialize", "", 1, "panic")
            /\ UNCHANGED <<POOL, POOL_ONCE, sup>>
       ELSE /\ Called2("initialize", "", 1, "ok")
            /\ POOL_ONCE' = TRUE
            /\ IF ~POOL_ONCE
               THEN /\ POOL' = SingleCreated(SinglePoolSize(size), period)
                    /\ sup' = IF period # None THEN Spawned("single") ELSE sup
               ELSE UNCHANGED <<POOL, sup>>
    /\ UNCHANGED <<wvars, commonVars, lifeVars, MULTI_POOL, MULTI_ONCE,
                   detached, reg_caller>>

\* single.rs, run, lines 77-99: where the job goes.
RunTarget(slot) == IF IsSome(slot) THEN "pool" ELSE "detached"

\* run(f).
SingleRun ==
    /\ reg_caller.pc = "ready"
    /\ Called2("run", "", 0, "ok")
    /\ CASE RunTarget(POOL) = "pool" ->
              /\ POOL[1].queued < MaxRuns
              /\ POOL' = <<[POOL[1] EXCEPT !.queued = @ + 1]>>
              /\ UNCHANGED detached
         [] RunTarget(POOL) = "detached" ->
              /\ detached < MaxRuns
              /\ detached' = detached + 1
              /\ UNCHANGED POOL
         [] OTHER -> UNCHANGED <<POOL, detached>>
    /\ UNCHANGED <<wvars, commonVars, lifeVars, POOL_ONCE, MULTI_POOL,
                   MULTI_ONCE, sup, reg_caller>>

\* close / force_close, lines 102-114: the pool is taken out of the slot,
\* closed and dropped; the handle of its supervisory thread is dropped with
\* it, the thread runs on.
SingleClose(forced) ==
    /\ reg_caller.pc = "ready"
    /\ Called2(IF forced THEN "force_close" ELSE "close", "", 0, "ok")
    /\ POOL' = <<>>
    /\ UNCHANGED <<wvars, commonVars, lifeVars, POOL_ONCE, MULTI_POOL,
                   MULTI_ONCE, sup, detached, reg_caller>>

\* resize(size), lines 116-129, as run by the thread it spawns.
SingleResize(size) ==
    /\ reg_caller.pc = "ready"
    /\ Called2("resize", "", 0, "ok")
    /\ POOL' = IF size = 0 THEN <<>>
               ELSE IF IsSome(POOL) THEN <<[POOL[1] EXCEPT !.size = size]>>
               ELSE SingleCreated(size, None)
    /\ UNCHANGED <<wvars, commonVars, lifeVars, POOL_ONCE, MULTI_POOL,
                   MULTI_ONCE, sup, detached, reg_caller>>

\* update_auto_adjustment_mode(enabled), lines 131-143.  Behind the join of
\* stop_auto_adjustment nothing is modelled: the supervisory thread never
\* ends.
SingleUpdateMode(enabled) ==
    /\ reg_caller.pc = "ready"
    /\ Called2("update_auto_adjustment_mode", "", 0, "ok")
    /\ IF ~IsSome(POOL) \/ POOL[1].auto_mode = enabled
       THEN UNCHANGED <<POOL, reg_caller>>
       ELSE IF ~enabled /\ POOL[1].handler # None
       THEN /\ reg_caller' = Joining(POOL[1].handler)
            /\ POOL' = <<[POOL[1] EXCEPT !.handler = None]>>
       ELSE /\ POOL' = <<[POOL[1] EXCEPT !.auto_mode = enabled]>>
            /\ UNCHANGED reg_caller
    /\ UNCHANGED <<wvars, commonVars, lifeVars, POOL_ONCE, MULTI_POOL,
                   MULTI_ONCE, sup, detached>>

\* reset_auto_adjustment_period(period), lines 145-156.
SingleResetPeriod(period) ==
    /\ reg_caller.pc = "ready"
    /\ period # None => Unspawned # {}
    /\ Called2("reset_auto_adjustment_period", "", 0, "ok")
    /\ IF ~IsSome(POOL)
       THEN UNCHANGED <<POOL, sup, reg_caller>>
       ELSE IF POOL[1].handler # None
       THEN /\ reg_caller' = Joining(POOL[1].handler)
            /\ POOL' = <<[POOL[1] EXCEPT !.handler = None]>>
            /\ UNCHANGED sup
       ELSE IF period # None
       THEN /\ POOL' = <<[POOL[1] EXCEPT !.auto_mode = TRUE, !.handler = Fresh]>>
            /\ sup' = Spawned("single")
            /\ UNCHANGED reg_caller
       ELSE UNCHANGED <<POOL, sup, reg_caller>>
    /\ UNCHANGED <<wvars, commonVars, lifeVars, POOL_ONCE, MULTI_POOL,
                   MULTI_ONCE, detached>>

\* ---- multi_pools.rs ----

\* multi_pools.rs, create, lines 169-175: the pools made from the map; an
\* entry with an empty key or a size of 0 is skipped.  0 stands for no pool.
StoreOf(keys) ==
    [k \in Names |->
       IF \E e \in keys : e.key = k /\ e.size > 0
       THEN (CHOOSE e \in keys : e.key = k /\ e.size > 0).size
       ELSE 0]

\* create, lines 177-186.
MultiCreated(keys, period) ==
    <<[store |-> StoreOf(keys), queued |-> [k \in Names |-> 0],
       closing |-> FALSE, period |-> period, handler |-> None,
       register |-> {}]>>

\* initialize / initialize_with_auto_adjustment, lines 49-61.
MultiInitialize(keys, period) ==
    /\ reg_caller.pc = "ready"
    /\ IF keys = {}
       THEN /\ Called2("multi_initialize", "", 0, "ok")
            /\ UNCHANGED <<MULTI_POOL, MULTI_ONCE>>
       ELSE IF Rejects(MULTI_POOL)
       THEN /\ Called2("multi_initialize", "", Cardinality(keys), "panic")
            /\ UNCHANGED <<MULTI_POOL, MULTI_ONCE>>
       ELSE /\ Called2("multi_initialize", "", Cardinality(keys), "ok")
            /\ MULTI_ONCE' = TRUE
            /\ MULTI_POOL' = IF ~MULTI_ONCE THEN MultiCreated(keys, period)
                             ELSE MULTI_POOL
    /\ UNCHANGED <<wvars, commonVars, lifeVars, POOL, POOL_ONCE, sup, detached,
                   reg_caller>>

\* Mutant of RunWithTarget: a job for an unknown name gets a thread of its own.
RunWithTargetSpawns(key) ==
    IF ~IsSome(MULTI_POOL) THEN "detached"
    ELSE IF MULTI_POOL[1].store[key] > 0 THEN "pool"
    ELSE "detached"

\* run_with, lines 64-89: where the job goes.
RunWithTarget(key) ==
    IF ~IsSome(MULTI_POOL) THEN "detached"
    ELSE IF MULTI_POOL[1].store[key] > 0 THEN "pool"
    ELSE "dropped"

\* run_with(key, f).
RunWith(key) ==
    /\ reg_caller.pc = "ready"
    /\ Called2("run_with", key, 0, "ok")
    /\ CASE RunWithTarget(key) = "pool" ->
              /\ MULTI_POOL[1].queued[key] < MaxRuns
              /\ MULTI_POOL' = <<[MULTI_POOL[1] EXCEPT !.queued[key] = @ + 1]>>
              /\ UNCHANGED detached
         [] RunWithTarget(key) = "detached" ->
              /\ detached < MaxRuns
              /\ detached' = detached + 1
              /\ UNCHANGED MULTI_POOL
         [] OTHER -> UNCHANGED <<MULTI_POOL, detached>>
    /\ UNCHANGED <<wvars, commonVars, lifeVars, POOL, POOL_ONCE, MULTI_ONCE,
                   sup, reg_caller>>

\* close / force_close, lines 92-108.
MultiClose(forced) ==
    /\ reg_caller.pc = "ready"
    /\ Called2(IF forced THEN "multi_force_close" ELSE "multi_close", "", 0, "ok")
    /\ MULTI_POOL' = <<>>
    /\ UNCHANGED <<wvars, commonVars, lifeVars, POOL, POOL_ONCE, MULTI_ONCE,
                   sup, detached, reg_caller>>

\* stop_auto_adjustment, lines 218-232, on the registry mp: the registry it
\* leaves and the thread it joins, if any.
StopOutcome(mp) ==
    IF mp.handler # None
    THEN [pool |-> [mp EXCEPT !.handler = None], spawn |-> FALSE,
          join |-> mp.handler]
    ELSE [pool |-> [mp EXCEPT !.register = {}, !.period = None],
          spawn |-> FALSE, join |-> None]

\* start_auto_adjustment, lines 189-216, on the registry mp.
StartOutcome(mp, period) ==
    IF mp.register = {}
    THEN [pool |-> mp, spawn |-> FALSE, join |-> None]
    ELSE IF mp.handler # None
    THEN StopOutcome(mp)
    ELSE [pool |-> [mp EXCEPT !.period = Max(period, 5), !.handler = Fresh],
          spawn |-> TRUE, join |-> None]

\* The registry, the threads and the caller after one of the two.
Outcome(r) ==
    /\ r.spawn => Unspawned # {}
    /\ MULTI_POOL' = <<r.pool>>
    /\ sup' = IF r.spawn THEN Spawned("multi") ELSE sup
    /\ reg_caller' = IF r.join # None THEN Joining(r.join) ELSE reg_caller

\* start_auto_adjustment(period).
MultiStart(period) ==
    /\ reg_caller.pc = "ready"
    /\ Called2("start_auto_adjustment", "", 0, "ok")
    /\ IF IsSome(MULTI_POOL)
       THEN Outcome(StartOutcome(MULTI_POOL[1], period))
       ELSE UNCHANGED <<MULTI_POOL, sup, reg_caller>>
    /\ UNCHANGED <<wvars, commonVars, lifeVars, POOL, POOL_ONCE, MULTI_ONCE,
                   detached>>

\* stop_auto_adjustment().
MultiStop ==
    /\ reg_caller.pc = "ready"
    /\ Called2("stop_auto_adjustment", "", 0, "ok")
    /\ IF IsSome(MULTI_POOL)
       THEN Outcome(StopOutcome(MULTI_POOL[1]))
       ELSE UNCHANGED <<MULTI_POOL, sup, reg_caller>>
    /\ UNCHANGED <<wvars, commonVars, lifeVars, POOL, POOL_ONCE, MULTI_ONCE,
                   detached>>

\* reset_auto_adjustment_period(period), lines 234-242.
MultiResetPeriod(period) ==
    /\ reg_caller.pc = "ready"
    /\ Called2("multi_reset_auto_adjustment_period", "", 0, "ok")
    /\ IF IsSome(MULTI_POOL)
       THEN LET stopped == StopOutcome(MULTI_POOL[1])
            IN IF stopped.join # None \/ period = None
               THEN Outcome(stopped)
               ELSE Outcome(StartOutcome(stopped.pool, period))
       ELSE UNCHANGED <<MULTI_POOL, sup, reg_caller>>
    /\ UNCHANGED <<wvars, commonVars, lifeVars, POOL, POOL_ONCE, MULTI_ONCE,
                   detached>>

\* toggle_pool_auto_mode(key, auto_adjust), lines 244-277.
TogglePoolAutoMode(key, auto_adjust) ==
    /\ reg_caller.pc = "ready"
    /\ Called2("toggle_pool_auto_mode", key, 0, "ok")
    /\ IF ~IsSome(MULTI_POOL)
       THEN UNCHANGED <<MULTI_POOL, sup, reg_caller>>
       ELSE LET mp == MULTI_POOL[1]
                added == [mp EXCEPT !.register = @ \cup {key}]
                removed == [mp EXCEPT !.register = @ \ {key}]
            IN IF mp.store[key] = 0 \/ (mp.register = {} /\ ~auto_adjust)
               THEN UNCHANGED <<MULTI_POOL, sup, reg_caller>>
               ELSE IF auto_adjust
               THEN IF mp.register = {}
                    THEN Outcome(StartOutcome(added,
                            IF mp.period # None THEN mp.period ELSE 10))
                    ELSE /\ MULTI_POOL' = <<added>>
                         /\ UNCHANGED <<sup, reg_caller>>
               ELSE IF removed.register = {}
                    THEN Outcome(StopOutcome(removed))
                    ELSE /\ MULTI_POOL' = <<removed>>
                         /\ UNCHANGED <<sup, reg_caller>>
    /\ UNCHANGED <<wvars, commonVars, lifeVars, POOL, POOL_ONCE, MULTI_ONCE,
                   detached>>

\* add_pool(key, size), lines 142-161, as run by the thread it spawns: a
\* pool of another size is resized, otherwise a new pool takes the key.
AddPool(key, size) ==
    /\ reg_caller.pc = "ready"
    /\ Called2("add_pool", key, 0, "ok")
    /\ IF size = 0 \/ ~IsSome(MULTI_POOL)
       THEN UNCHANGED MULTI_POOL
       ELSE LET mp == MULTI_POOL[1]
            IN IF mp.store[key] > 0 /\ mp.store[key] # size
               THEN MULTI_POOL' = <<[mp EXCEPT !.store[key] = size]>>
               ELSE MULTI_POOL' = <<[mp EXCEPT !.store[key] = size,
                                               !.queued[key] = 0]>>
    /\ UNCHANGED <<wvars, commonVars, lifeVars, POOL, POOL_ONCE, MULTI_ONCE,
                   sup, detached, reg_caller>>

\* remove_pool(key), lines 124-140, as run by the thread it spawns: the
\* pool leaves the store and is closed; the register is not touched.
RemovePool(key) ==
    /\ reg_caller.pc = "ready"
    /\ Called2("remove_pool", key, 0, "ok")
    /\ IF IsSome(MULTI_POOL) /\ MULTI_POOL[1].store[key] > 0
       THEN MULTI_POOL' = <<[MULTI_POOL[1] EXCEPT !.store[key] = 0,
                                                  !.queued[key] = 0]>>
       ELSE UNCHANGED MULTI_POOL
    /\ UNCHANGED <<wvars, commonVars, lifeVars, POOL, POOL_ONCE, MULTI_ONCE,
                   sup, detached, reg_caller>>

\* is_pool_in_auto_mode(key), lines 279-285.
IsPoolInAutoMode(key) ==
    IsSome(MULTI_POOL) /\ key \in MULTI_POOL[1].register

NextReg ==
    \/ \E t \in SupIds : SupStep(t)
    \/ \E size \in RegSizes, period \in Periods : SingleInitialize(size, period)
    \/ SingleRun
    \/ \E forced \in BOOLEAN : SingleClose(forced)
    \/ \E size \in RegSizes : SingleResize(size)
    \/ \E enabled \in BOOLEAN : SingleUpdateMode(enabled)
    \/ \E period \in Periods : SingleResetPeriod(period)
    \/ \E keys \in KeyMaps, period \in Periods : MultiInitialize(keys, period)
    \/ \E key \in Names : RunWith(key)
    \/ \E forced \in BOOLEAN : MultiClose(forced)
    \/ \E period \in Periods \ {None} : MultiStart(period)
    \/ MultiStop
    \/ \E period \in Periods : MultiResetPeriod(period)
    \/ \E key \in Names, auto_adjust \in BOOLEAN : TogglePoolAutoMode(key, auto_adjust)

SpecReg == InitReg /\ [][NextReg]_vars

\* The registry of multi_pools.rs on its own, with pools added and removed.
NextPools ==
    \/ \E t \in SupIds : SupStep(t)
    \/ \E keys \in KeyMaps, period \in Periods : MultiInitialize(keys, period)
    \/ \E key \in Names : RunWith(key)
    \/ \E forced \in BOOLEAN : MultiClose(forced)
    \/ \E period \in Periods \ {None} : MultiStart(period)
    \/ MultiStop
    \/ \E period \in Periods : MultiResetPeriod(period)
    \/ \E key \in Names, auto_adjust \in BOOLEAN : TogglePoolAutoMode(key, auto_adjust)
    \/ \E key \in Names, size \in RegSizes : AddPool(key, size)
    \/ \E key \in Names : RemovePool(key)

SpecPools == InitReg /\ [][NextPools]_vars

\* The supervisory threads are scheduled like any other thread.
FairSpecReg == InitReg /\ [][NextReg]_vars /\ \A t \in SupIds : WF_vars(SupStep(t))

-----------------------------------------------------------------------------
InChan(message) ==
    \/ \E i \in 1..Len(pri_chan) : pri_chan[i] = message
    \/ \E i \in 1..Len(norm_chan) : norm_chan[i] = message

Retired(w) == pc[w] = "Retired"

\* C1: after a non-forced close that found a live worker, once every worker
\* has retired each job submitted before the close has been executed.
C1_CloseDrains ==
    (/\ owner.pc \in {"join", "dropped"}
     /\ ~forced_close
     /\ owner.live # {}
     /\ \A w \in Ids : Retired(w))
    => \A j \in 1..(next_job - 1) : ran[j] = 1

\* C2: a worker that quits on a targeted Terminate(t), t >= 1, is worker t
\* itself; and while Terminate(t) is in a channel, worker t, if it has not
\* retired yet, eventually does.
C2_TargetedTermination ==
    /\ [](\A u \in Ids :
            (exit[u].by = "target" /\ exit[u].arg # 0) => exit[u].arg = u)
    /\ \A t \in Ids : (InChan(Terminate(t)) /\ ~Retired(t)) ~> Retired(t)

\* C2 witness: worker t retired on its graveyard slot, which another worker
\* wrote when it took Terminate(t), and that other worker is still running.
C2_Witness ==
    \E t \in Ids, u \in Ids :
        /\ t # u
        /\ exit[t].by = "dead"
        /\ ~Retired(u)
        /\ t \notin workers

\* C3: a worker whose graveyard slot is -1 takes at most one more message
\* off the channels, and it retires.
C3_BoundedExit ==
    /\ [](\A w \in Ids : deq_dead[w] <= 1)
    /\ \A w \in Ids : (Slot(graveyard, w) = -1) ~> Retired(w)

\* C3 witness: a worker retired on its slot after taking one message while
\* the slot was already -1.
C3_Witness ==
    \E w \in Ids : exit[w].by = "dead" /\ deq_dead[w] = 1

Queued(j) == InChan(NewJob(j))

\* C4: under forced close with the global slot at -1 a worker takes at most
\* one further message; no job runs twice, a job still queued or never
\* submitted has not run, and a worker at Checking is about to retire.
C4_ForceCloseAbandons ==
    /\ \A w \in Ids : deq_forced[w] <= 1
    /\ \A j \in DOMAIN ran :
          /\ ran[j] <= 1
          /\ (Queued(j) \/ j >= next_job) => ran[j] = 0
    /\ (forced_close /\ Slot(graveyard, 0) = -1) =>
          \A w \in Ids : pc[w] = "Checking" => CheckingExit(w) # ""

\* C4 witness: forced close is under way, the global slot is -1, a job is
\* still queued and every worker has retired.
C4_Witness ==
    /\ forced_close
    /\ Slot(graveyard, 0) = -1
    /\ \E j \in DOMAIN ran : Queued(j)
    /\ \A w \in Ids : Retired(w)
    /\ \E w \in Ids : exit[w].by = "global"

C7_SelfPurgeCondition ==
    \A w \in Ids :
        exit[w].by = "purge" =>
            /\ ~privileged
            /\ exit[w].arg > 0
            /\ exit[w].arg = max_idle
            /\ idle_base[w] # None
            /\ now - idle_base[w] >= exit[w].arg

\* C7 witness: a worker has retired through the self-purge.
C7_Witness == \E w \in Ids : exit[w].by = "purge"

\* C10: no step turns a graveyard slot at -1 into anything else, a slot
\* that changes becomes -1, and the graveyard does not shrink.
C10_GraveyardTerminal ==
    [][/\ Len(graveyard') >= Len(graveyard)
       /\ \A i \in 1..Len(graveyard) :
             /\ graveyard[i] = -1 => graveyard'[i] = -1
             /\ graveyard'[i] # graveyard[i] => graveyard'[i] = -1]_vars

\* C10 witness: a worker has written a slot and workers are still running
\* with that slot at -1.
C10_Witness ==
    /\ Slot(graveyard, 0) = -1
    /\ \E w \in Ids : pc[w] = "Settling" /\ courier[w].target = 0

-----------------------------------------------------------------------------
\* Claims about the single-queue pool of common.rs.

\* C6: under fair scheduling of all workers, a kill_worker(id) that has sent
\* Terminate(id) and is joining that worker's thread eventually returns.
C6_KillWorkerReturns == (caller.pc = "kill_join") ~> (caller.pc = "ready")

\* C8: the workers of the list have pairwise distinct ids, each between 1
\* and last_id; no id is given to more than one worker, also after its
\* worker was removed by kill_worker; last_id never decreases.
C8_IdsUnique ==
    /\ [](/\ \A k, m \in 1..Len(tp_workers) :
                k # m => tp_workers[k] # tp_workers[m]
          /\ \A k \in 1..Len(tp_workers) :
                tp_workers[k] >= 1 /\ tp_workers[k] <= last_id
          /\ \A i \in TpIds : issued[i] <= 1
          /\ \A i \in TpIds : issued[i] = 1 => i <= last_id)
    /\ [][last_id' >= last_id]_vars

\* A worker was killed and joined, and a later extend added workers.
C8_Witness ==
    /\ op.name = "extend"
    /\ op.arg > 0
    /\ \E i \in 1..(last_id - op.arg) :
          /\ i \notin Range(tp_workers)
          /\ thread[i] = "done"
    /\ last_id \in Range(tp_workers)

\* C9: a call extend(n) appends to the list exactly the n ids
\* last_id+1 .. last_id+n, in this order, and adds n to last_id; the entries
\* already in the list, their threads and the queue are as before; for
\* n = 0 nothing of the pool changes.
C9_ExtendGrows ==
    [][(op' # op /\ op'.name = "extend") =>
          /\ Len(tp_workers') = Len(tp_workers) + op'.arg
          /\ \A k \in 1..Len(tp_workers) : tp_workers'[k] = tp_workers[k]
          /\ \A k \in 1..op'.arg :
                tp_workers'[Len(tp_workers) + k] = last_id + k
          /\ last_id' = last_id + op'.arg
          /\ \A i \in 1..last_id : thread'[i] = thread[i]
          /\ joinable \subseteq joinable'
          /\ UNCHANGED <<receiver, lock, new_job, caller, called>>
          /\ op'.arg = 0 =>
                UNCHANGED <<tp_workers, last_id, thread, joinable, issued>>]_vars

\* extend(MaxExtend) was the last call, on a list that had lost a worker.
C9_Witness ==
    /\ op.name = "extend"
    /\ op.arg = MaxExtend
    /\ Len(tp_workers) > MaxExtend
    /\ Len(tp_workers) < last_id
    /\ \A k \in 1..op.arg :
          tp_workers[Len(tp_workers) - op.arg + k] = last_id - op.arg + k

-----------------------------------------------------------------------------
\* Claims about the channels and the graveyard of the worker (second part).

\* The pool has been closed by its owner, and not by force_close.
ClosedUnforced == owner.pc \in {"closing", "join", "dropped"} /\ ~owner.forced

\* C15: under a non-forced close of this pool, whatever is called on another
\* pool, a worker that returns at Checking on the global slot finds both
\* channels empty, and a worker that consumed Terminate(0) does not return
\* in that Settling.
C15_ForcedClosePerPool ==
    [][\A w \in Ids :
          ClosedUnforced =>
             /\ (pc[w] = "Checking" /\ pc'[w] = "Retired"
                 /\ exit'[w].by = "global")
                   => (IsEmpty(pri_chan) /\ IsEmpty(norm_chan))
             /\ (pc[w] = "Settling" /\ courier[w].target = 0)
                   => ~(pc'[w] = "Retired" /\ exit'[w].by = "target")]_vars

\* The step of w is a Settling that consumes a Terminate.
ConsumesTarget(w) ==
    pc[w] = "Settling" /\ pc'[w] # "Settling" /\ courier[w].target # None

\* What the claim says of the graveyard after Terminate(t) was consumed.
MarkedAt(t) ==
    IF t < Len(graveyard)
    THEN [k \in 1..Len(graveyard) |-> IF k = t + 1 THEN -1 ELSE graveyard[k]]
    ELSE graveyard

\* C19, as stated: in the Settling that consumes Terminate(t) the slot t of
\* the graveyard becomes -1 and nothing else changes, and the worker retires
\* in this step if and only if t is its own id, or t = 0 under forced close.
C19_TerminateEffect ==
    [][\A w \in Ids :
          ConsumesTarget(w) =>
             /\ graveyard' = MarkedAt(courier[w].target)
             /\ (pc'[w] = "Retired") <=>
                   \/ courier[w].target = w
                   \/ courier[w].target = 0 /\ forced_close]_vars

\* C19, amended: the same effect on the graveyard (none for a target beyond
\* its length); the worker returns through the Terminate branch if and only
\* if t is its own id, or t = 0 under forced close; otherwise it returns in
\* this step only through the idle self-purge, and else goes on to Checking.
C19_TerminateEffectOrPurge ==
    /\ [](\A t \in Len(graveyard)..(Len(graveyard) + 1) :
             GraveyardWrite(graveyard, t) = graveyard)
    /\ [][\A w \in Ids :
             ConsumesTarget(w) =>
                /\ graveyard' = MarkedAt(courier[w].target)
                /\ (pc'[w] = "Retired" /\ exit'[w].by = "target") <=>
                      \/ courier[w].target = w
                      \/ courier[w].target = 0 /\ forced_close
                /\ pc'[w] = "Retired" =>
                      \/ exit'[w].by = "target"
                      \/ /\ exit'[w].by = "purge"
                         /\ ~privileged /\ max_idle > 0 /\ idle[w] >= max_idle
                /\ pc'[w] # "Retired" => pc'[w] = "Checking"]_vars

\* Terminate(0) was consumed without the flag: the global slot is marked,
\* nothing is queued any more, and a worker is still in its loop.
C19_Witness ==
    /\ ~forced_close
    /\ Slot(graveyard, 0) = -1
    /\ owner.pc = "join"
    /\ IsEmpty(pri_chan) /\ IsEmpty(norm_chan)
    /\ \E w \in workers : pc[w] = "Checking" /\ exit[w].by = ""

\* The normal fetch of w has just timed out on an empty normal channel.
NormTimedOut(w) ==
    pc[w] = "FetchNorm" /\ pc'[w] = "Handling" /\ IsEmpty(norm_chan)

\* The priority fetch of w has just timed out.
PriTimedOut(w) == pc[w] = "FetchPri" /\ pc'[w] = "PollNorm"

\* C20: a normal-biased worker (id mod 3 = 1) gives the normal channel the
\* long budget and no early skip, a fluid worker (id mod 3 = 2) gives both
\* channels the short budget with the early skip, and a priority-biased
\* worker (id mod 3 = 0) gives the priority channel the long budget.
C20_RoleBudgets ==
    [][\A w \in Ids :
          /\ (NormTimedOut(w) /\ w % LOT_COUNTS = 1)
                => wait'[w] >= LONG_PARKING_ROUNDS
          /\ (NormTimedOut(w) /\ w % LOT_COUNTS = 2)
                => wait'[w] <= SHORT_PARKING_ROUNDS + 1
          /\ (PriTimedOut(w) /\ w % LOT_COUNTS = 2)
                => wait'[w] <= SHORT_PARKING_ROUNDS + 1
          /\ (PriTimedOut(w) /\ w % LOT_COUNTS = 0)
                => wait'[w] >= LONG_PARKING_ROUNDS]_vars

-----------------------------------------------------------------------------
\* Claims about the single-queue pool of common.rs (second part).

\* C17: ThreadPool::new(s) leaves exactly max(1, s) workers, with the ids
\* 1 .. max(1, s) in this order, each handed out once and its thread
\* spawned, and last_id = max(1, s); the single-pool initialize clamps its
\* size the same way.
C17_SizeClamp ==
    /\ op.name = "new" =>
          /\ Len(tp_workers) = Max(1, op.arg)
          /\ \A k \in 1..Len(tp_workers) : tp_workers[k] = k
          /\ last_id = Max(1, op.arg)
          /\ \A i \in TpIds : issued[i] = (IF i <= Max(1, op.arg) THEN 1 ELSE 0)
          /\ \A i \in TpIds : (thread[i] # "none") <=> (i <= Max(1, op.arg))
    /\ \A s \in 0..MaxNew : SinglePoolSize(s) = Max(1, s)

\* new(0) was called, and its one worker has started to work.
C17_Witness ==
    /\ op.name = "new"
    /\ op.arg = 0
    /\ tp_workers = <<1>>
    /\ thread[1] = "recv"

\* clear (called directly or by Drop) has returned and nothing was called
\* since.
ClearReturned ==
    op.name \in {"clear", "drop"} /\ caller.pc \in {"ready", "dropped"}

\* C18: no job is called twice; and when clear has returned, every job
\* enqueued before it has been called exactly once, the thread of every
\* worker of the list has ended, and no Terminate(0) is left in the queue.
C18_ClearDrains ==
    /\ \A j \in 1..MaxJobs : called[j] <= 1
    /\ ClearReturned =>
          /\ \A j \in 1..(tp_next_job - 1) : called[j] = 1
          /\ \A k \in 1..Len(tp_workers) : thread[tp_workers[k]] = "done"
          /\ \A k \in 1..Len(receiver) : receiver[k] # Terminate(0)

-----------------------------------------------------------------------------
\* Claims about the Worker object and its hooks.

\* Where `what` stands in the log of worker i.
Pos(i, what) == {k \in 1..Len(hook_log[i]) : hook_log[i][k].what = what}

Earlier(i, a, b) == \A k \in Pos(i, a), m \in Pos(i, b) : k < m

\* C16: for every worker, before_start comes before the spawn of its
\* thread, after_start after the spawn and before Worker::new returns,
\* before_drop before the join and after_drop after the join has returned
\* (the thread has ended); each callback that is set runs exactly once per
\* worker, on the caller's thread.
C16_HookOrder ==
    \A i \in HookIds :
       /\ \A h \in Hooks \cup {"spawn", "join"} : Cardinality(Pos(i, h)) <= 1
       /\ \A k \in 1..Len(hook_log[i]) : hook_log[i][k].by = "caller"
       /\ Earlier(i, "before_start", "spawn")
       /\ Earlier(i, "spawn", "after_start")
       /\ Earlier(i, "after_start", "before_drop")
       /\ Earlier(i, "before_drop", "join")
       /\ Earlier(i, "join", "after_drop")
       /\ Pos(i, "spawn") # {} =>
             ("before_start" \in hooks_defined => Pos(i, "before_start") # {})
       /\ Pos(i, "after_start") # {} => Pos(i, "spawn") # {}
       /\ wk_state[i] = "alive" =>
             /\ Pos(i, "spawn") # {}
             /\ "after_start" \in hooks_defined => Pos(i, "after_start") # {}
       /\ Pos(i, "join") # {} =>
             /\ wk_thread[i] = "returned"
             /\ "before_drop" \in hooks_defined => Pos(i, "before_drop") # {}
       /\ Pos(i, "after_drop") # {} => Pos(i, "join") # {}
       /\ wk_state[i] = "dropped" =>
             \A h \in Hooks :
                Cardinality(Pos(i, h)) = (IF h \in hooks_defined THEN 1 ELSE 0)

\* A worker with all four callbacks set has been created and dropped while
\* another one is still alive.
C16_Witness ==
    /\ hooks_defined = Hooks
    /\ \E i, j \in HookIds :
          /\ wk_state[i] = "dropped"
          /\ Len(hook_log[i]) = 6
          /\ wk_state[j] = "alive"


-----------------------------------------------------------------------------
DoubleInit ==
    /\ reg_op' # reg_op
    /\ \/ reg_op'.name = "initialize" /\ IsSome(POOL)
       \/ reg_op'.name = "multi_initialize" /\ IsSome(MULTI_POOL)

\* Nothing the slots hold, and no supervisory thread, changes.
SlotsUnchanged == UNCHANGED <<POOL, POOL_ONCE, MULTI_POOL, MULTI_ONCE, sup, detached>>

\* C12 as stated: every initialize on an initialised slot, whatever its
\* argument, panics and leaves the pools, their workers and their queues
\* unchanged.
C12_DoubleInitPanics ==
    [][DoubleInit => (reg_op'.outcome = "panic" /\ SlotsUnchanged)]_vars

\* C12 as the code has it: an initialize on an initialised slot leaves the
\* pools, their workers and their queues unchanged; it panics, except that
\* the registry's initialize with an empty map returns without a panic.
C12_DoubleInitRejected ==
    [][DoubleInit =>
          /\ SlotsUnchanged
          /\ reg_op'.outcome =
               IF reg_op'.name = "multi_initialize" /\ reg_op'.n = 0
               THEN "ok" ELSE "panic"]_vars

\* The registry, initialised, has refused a second map, and the single
\* slot's pool with a job in its queue is still there.
C12_Witness ==
    /\ reg_op.name = "multi_initialize"
    /\ reg_op.outcome = "panic"
    /\ IsSome(MULTI_POOL)
    /\ IsSome(POOL)
    /\ POOL[1].queued > 0

\* C13: run_with(key, job) on an initialised registry with key registered
\* adds the job to that pool's queue and to nothing else; on an initialised
\* registry without that key it changes no pool and starts no thread; on an
\* uninitialised registry (never created or closed) it starts one detached
\* thread for the job.  run does the same on the single slot.  Neither
\* panics.
C13_RunWithDispatch ==
    [][(reg_op' # reg_op /\ reg_op'.name \in {"run_with", "run"}) =>
          /\ reg_op'.outcome = "ok"
          /\ UNCHANGED <<POOL_ONCE, MULTI_ONCE, sup, reg_caller>>
          /\ IF reg_op'.name = "run_with"
             THEN /\ POOL' = POOL
                  /\ IF IsSome(MULTI_POOL) /\ MULTI_POOL[1].store[reg_op'.key] > 0
                     THEN /\ MULTI_POOL' =
                               <<[MULTI_POOL[1] EXCEPT !.queued[reg_op'.key] = @ + 1]>>
                          /\ detached' = detached
                     ELSE IF IsSome(MULTI_POOL)
                     THEN UNCHANGED <<MULTI_POOL, detached>>
                     ELSE /\ MULTI_POOL' = MULTI_POOL
                          /\ detached' = detached + 1
             ELSE /\ MULTI_POOL' = MULTI_POOL
                  /\ IF IsSome(POOL)
                     THEN /\ POOL' = <<[POOL[1] EXCEPT !.queued = @ + 1]>>
                          /\ detached' = detached
                     ELSE /\ POOL' = POOL
                          /\ detached' = detached + 1]_vars

\* run_with has just been called with a key the initialised registry does
\* not hold, after a job went to a registered pool and one to a detached
\* thread.
C13_Witness ==
    /\ reg_op.name = "run_with"
    /\ IsSome(MULTI_POOL)
    /\ MULTI_POOL[1].store[reg_op.key] = 0
    /\ \E k \in Names : MULTI_POOL[1].queued[k] > 0
    /\ detached > 0


\* C14: a caller that has come to stop the supervisory thread (through
\* reset_auto_adjustment_period, update_auto_adjustment_mode(false),
\* stop_auto_adjustment or a toggle that empties the register) eventually
\* returns.
C14_StopReturns == (reg_caller.pc = "stop_join") ~> (reg_caller.pc = "ready")

-----------------------------------------------------------------------------
\* The step in which worker w comes back from its fetch on the priority
\* channel, and the one in which it comes back from its fetch on the normal
\* channel.
PriFetched(w) == pc[w] = "FetchPri" /\ pc'[w] # "FetchPri"
NormFetched(w) == pc[w] = "FetchNorm" /\ pc'[w] # "FetchNorm"

\* What the claim allows one fetch on `chan` to do: at most Rounds(can_skip)
\* try_recv calls; a message or a disconnection ends it at the first call,
\* and so does an empty channel when can_skip and the side queue holds
\* something.
WithinBudget(chan, side_empty, can_skip, tries) ==
    /\ tries <= Rounds(can_skip)
    /\ (~IsEmpty(chan) \/ Disconnected(chan) \/ (can_skip /\ ~side_empty))
          => tries = 1

\* C21: a fetch makes at most ROUNDS try_recv calls on its main channel (4
\* with can_skip, 16 without) before it returns timeout, and returns at the
\* first call that finds a message, a disconnection, or, with can_skip and
\* a non-empty side queue, nothing.
C21_FetchBudget ==
    [][\A w \in Ids :
          /\ PriFetched(w) =>
                WithinBudget(pri_chan, side_chan_empty[w], ~Parking(w), wait'[w])
          /\ NormFetched(w) =>
                WithinBudget(norm_chan, side_chan_empty[w], NormCanSkip(w), wait'[w])]_vars

\* C22: in the iteration in which a worker executes a job, the idle period
\* handed to the self-purge test is 0 (or absent, for a privileged worker).
C22_IdleZeroAfterJob ==
    [][\A w \in Ids :
          (pc[w] = "Handling" /\ courier[w].work # None /\ pc'[w] = "Settling")
             => idle'[w] \in {None, 0}]_vars

\* The values check_queues gives the counter.
CounterValues == (0..PRI_WORK_CAP) \cup {PRI_WORK_SKIP}

\* C23: pri_work_count only holds 0..4 or 255.  An iteration that starts at
\* 255 goes straight to the normal channel with the counter back at 0 and
\* never receives from the priority channel; the mark is only set after a
\* receive from the priority channel (so never in an iteration that skipped
\* the probe, and no two skips follow each other); and a message taken from
\* the normal channel leaves the counter at 0.
C23_YieldMarker ==
    [][\A w \in Ids :
          /\ pri_work_count'[w] \in CounterValues
          /\ (pc[w] = "Polling" /\ pri_work_count[w] = PRI_WORK_SKIP
                /\ pc'[w] # "Polling")
                => /\ pc'[w] = "FetchNorm"
                   /\ pri_work_count'[w] = 0
                   /\ pri_chan' = pri_chan
          /\ pc'[w] \in {"FetchPri", "CheckFull", "PollNorm", "FetchNorm"}
                => pri_work_count'[w] # PRI_WORK_SKIP
          /\ (pc[w] = "FetchNorm" /\ pc'[w] # "FetchNorm")
                => /\ pri_chan' = pri_chan
                   /\ pc'[w] \in {"Handling", "Retired"}
                   /\ norm_chan' # norm_chan => pri_work_count'[w] = 0
          /\ (pri_work_count'[w] = PRI_WORK_SKIP
                /\ pri_work_count[w] # PRI_WORK_SKIP)
                => pc[w] = "CheckFull"]_vars

\* C23 witness: a worker that found the mark has skipped the probe and is
\* about to fetch from the full normal channel, its counter back at 0.
C23_Witness ==
    \E w \in Ids :
        /\ pc[w] = "FetchNorm"
        /\ pri_work_count[w] = 0
        /\ pri_run[w] >= PRI_WORK_CAP + 1
        /\ ~must_yield[w]
        /\ IsFull(norm_chan)

\* The courier holds nothing.
Unloaded(c) == c.work = None /\ c.target = None

\* C24: an iteration that starts below the mark fetches from the priority
\* channel first; a message taken there is the one the worker carries and
\* the normal channel is not touched in that iteration; the normal channel
\* is only polled by a worker that carries nothing; and a worker carries at
\* most one message, which it has let go of before the next iteration.
C24_PriorityFirst ==
    [][\A w \in Ids :
          /\ (pc[w] = "Polling" /\ pri_work_count[w] < PRI_WORK_SKIP
                /\ pc'[w] # "Polling")
                => /\ pc'[w] = "FetchPri"
                   /\ UNCHANGED <<pri_chan, norm_chan>>
          /\ (PriFetched(w) /\ pri_chan' # pri_chan)
                => /\ pc'[w] \in {"Handling", "CheckFull"}
                   /\ norm_chan' = norm_chan
                   /\ pri_chan' = Tail(pri_chan)
                   /\ courier'[w] = UnpackMessage(Head(pri_chan), courier[w])
          /\ (pc[w] = "CheckFull" /\ pc'[w] # "CheckFull")
                => /\ pc'[w] = "Handling"
                   /\ UNCHANGED <<pri_chan, norm_chan, courier>>
          /\ (NormFetched(w) /\ norm_chan' # norm_chan)
                => /\ norm_chan' = Tail(norm_chan)
                   /\ pri_chan' = pri_chan
          /\ pc'[w] \in {"Checking", "Polling", "FetchPri", "PollNorm", "FetchNorm"}
                => Unloaded(courier'[w])
          /\ courier'[w].work = None \/ courier'[w].target = None]_vars

\* C24 witness: a worker carries a job it took from the priority channel
\* while the normal channel holds a message.
C24_Witness ==
    \E w \in Ids :
        /\ pc[w] = "Handling"
        /\ courier[w].work # None
        /\ pri_run[w] > 0
        /\ ~IsEmpty(norm_chan)

\* C25: the counter goes up by one only in the step that takes a NewJob off
\* the priority channel, taking a Terminate there leaves it as it was, and
\* it is set to 255 only from 4, for a NewJob, with the normal channel full.
C25_CountsJobsOnly ==
    [][\A w \in Ids :
          /\ (PriFetched(w) /\ pri_chan' # pri_chan
                /\ Head(pri_chan).kind = "Terminate")
                => pri_work_count'[w] = pri_work_count[w]
          /\ pri_work_count'[w] = pri_work_count[w] + 1
                => /\ PriFetched(w)
                   /\ pri_chan' # pri_chan
                   /\ Head(pri_chan).kind = "NewJob"
          /\ (pri_work_count'[w] = PRI_WORK_SKIP
                /\ pri_work_count[w] # PRI_WORK_SKIP)
                => /\ pri_work_count[w] = PRI_WORK_CAP
                   /\ IsFull(norm_chan)
                   /\ courier[w].work # None]_vars

\* C26: whatever new, extend and kill_worker have made of the list,
\* get_next_worker_id(c) is the id stored right after the worker with id c,
\* and none exactly when no worker has id c or that worker is the last;
\* get_first_worker_id and get_last_worker_id are the ids of the first and
\* the last entry, and none only for an empty list.
C26_NextWorkerId ==
    /\ \A c \in 0..MaxId :
          GetNextWorkerId(c) =
             IF \E k \in 1..(Len(tp_workers) - 1) : tp_workers[k] = c
             THEN tp_workers[IndexOf(c) + 1]
             ELSE None
    /\ GetFirstWorkerId = IF tp_workers = <<>> THEN None ELSE Head(tp_workers)
    /\ GetLastWorkerId =
          IF tp_workers = <<>> THEN None ELSE tp_workers[Len(tp_workers)]

\* C27: a worker whose job is running holds no guard on the graveyard, so
\* while it runs the lock is as free for the other workers as they leave
\* it: with no other guard out, another worker's read and another worker's
\* write can both be taken.
C27_NoJobUnderLock ==
    \A i \in HookIds :
        (wk_thread[i] = "running" /\ wk_pc[i] = "job") =>
            /\ g_lock[i] = "none"
            /\ \A j \in HookIds \ {i} :
                  (\A k \in HookIds \ {i, j} : g_lock[k] = "none") =>
                     /\ wk_pc[j] = "check" => ENABLED ReadLock(j)
                     /\ wk_pc[j] = "settle" => ENABLED WriteLock(j)

\* C27 witness: one worker is inside its job while another holds the write
\* guard.
C27_Witness ==
    \E i, j \in HookIds :
        /\ wk_pc[i] = "job"
        /\ g_lock[j] = "write"

\* The workers that carry job j, dequeued and not yet executed.
Carriers(j) == {w \in Ids : courier[w].work = j}

\* C28: every job that was submitted is in exactly one place: still in a
\* channel, carried by exactly one worker that has not retired, or executed
\* exactly once.  A job is executed by the worker that carries it, in its
\* Handling, whatever the graveyard and the forced-close flag have become
\* since the dequeue.
C28_RunsExactlyOnce ==
    [][/\ \A j \in 1..job_limit :
             /\ ran'[j] <= 1
             /\ j < next_job' =>
                   (IF Queued(j)' THEN 1 ELSE 0) + Cardinality(Carriers(j)')
                      + ran'[j] = 1
             /\ ran'[j] # ran[j] =>
                   \E w \in Carriers(j) :
                      /\ pc[w] = "Handling"
                      /\ pc'[w] = "Settling"
                      /\ ran'[j] = ran[j] + 1
       /\ \A w \in Ids : pc'[w] = "Retired" => courier'[w].work = None]_vars

\* C28 witness: a worker carries a job it took while its slot was clear; the
\* slot has been set to -1 or the pool has been force-closed since, and an
\* earlier job has been executed.
C28_Witness ==
    \E w \in Ids :
        /\ pc[w] = "Handling"
        /\ courier[w].work # None
        /\ deq_dead[w] = 0
        /\ deq_forced[w] = 0
        /\ Slot(graveyard, w) = -1 \/ forced_close
        /\ \E j \in 1..job_limit : ran[j] = 1

\* C29: every name in the auto-adjust register is the key of a pool in the
\* store, so is_pool_in_auto_mode is false for a name without a pool.
C29_RegisterInStore ==
    /\ IsSome(MULTI_POOL) =>
          \A k \in MULTI_POOL[1].register : MULTI_POOL[1].store[k] > 0
    /\ \A k \in Names :
          (~IsSome(MULTI_POOL) \/ MULTI_POOL[1].store[k] = 0)
             => ~IsPoolInAutoMode(k)

====
